---- MODULE Spec2Model ----
(***************************************************************************)
(* Model of the EIS API client (src/src/client.ts): construction, the      *)
(* request executor makeRequest with its timeout timer and error           *)
(* classification, and the four public operations that wrap it into the    *)
(* ApiResponse envelope.                                                   *)
(*                                                                         *)
(* JavaScript values are records [t, v]: t is the JS type, v the value     *)
(* written as a string.  Error messages are real strings, so startsWith,   *)
(* includes and template literals are computed, not assumed.               *)
(***************************************************************************)
EXTENDS Integers, Sequences, FiniteSets, TLC

\* ---------------------------------------------------------------- bounds
\* Number of call slots of the one client instance.
MaxCalls == 2

Calls == 1..MaxCalls

\* ------------------------------------------------------------- JS values
JSNull == [t |-> "null", v |-> ""]

JSUndefined == [t |-> "undefined", v |-> ""]

JSStr(s) == [t |-> "string", v |-> s]

JSNum(s) == [t |-> "number", v |-> s]

JSBool(s) == [t |-> "boolean", v |-> s]

JSObj(s) == [t |-> "object", v |-> s]

\* ToBoolean: the falsy values are null, undefined, 0, "" and false.
Truthy(x) ==
  /\ x.t \notin {"null", "undefined"}
  /\ ~(x.t = "number" /\ x.v = "0")
  /\ ~(x.t = "string" /\ x.v = "")
  /\ ~(x.t = "boolean" /\ x.v = "false")

\* ToString, as applied by the Error constructor and by template literals.
JSToString(x) ==
  CASE x.t = "null" -> "null"
    [] x.t = "undefined" -> "undefined"
    [] x.t = "object" -> "[object Object]"
    [] OTHER -> x.v

\* a || b
JSOr(a, b) == IF Truthy(a) THEN a ELSE b

\* a ?? b
JSNullish(a, b) == IF a.t \in {"null", "undefined"} THEN b ELSE a

\* A prefix test written as an equality: s === p.
StartsWithExact(s, p) == s = p

\* String.prototype.startsWith
StartsWith(s, p) == Len(s) >= Len(p) /\ SubSeq(s, 1, Len(p)) = p

\* String.prototype.includes
Includes(s, p) ==
  \E i \in 1..(Len(s) - Len(p) + 1) : SubSeq(s, i, i + Len(p) - 1) = p

\* ---------------------------------------------------------- error objects
\* A thrown value: cls is its class ("NonError" for a thrown non-Error).
MkError(cls, name, message) ==
  [cls |-> cls, name |-> name, message |-> message,
   code |-> JSUndefined, timestamp |-> JSUndefined, path |-> JSUndefined,
   statusCode |-> JSUndefined]

NoError == MkError("none", "", "")

NoOptions ==
  [code |-> JSUndefined, timestamp |-> JSUndefined, path |-> JSUndefined,
   statusCode |-> JSUndefined]

\* An EisApiError whose constructor forgets to copy statusCode.
EisApiErrorNoStatus(message, options) ==
  [cls |-> "EisApiError", name |-> "EisApiError",
   message |-> JSToString(message),
   code |-> options.code, timestamp |-> options.timestamp,
   path |-> options.path, statusCode |-> JSUndefined]

\* new EisApiError(message, options): super(message) converts the message to
\* a string; each option is copied when it is not undefined.
EisApiError(message, options) ==
  [cls |-> "EisApiError", name |-> "EisApiError",
   message |-> JSToString(message),
   code |-> IF options.code # JSUndefined THEN options.code ELSE JSUndefined,
   timestamp |-> IF options.timestamp # JSUndefined THEN options.timestamp
                 ELSE JSUndefined,
   path |-> IF options.path # JSUndefined THEN options.path ELSE JSUndefined,
   statusCode |-> IF options.statusCode # JSUndefined THEN options.statusCode
                  ELSE JSUndefined]

\* error instanceof Error
InstanceOfError(e) == e.cls # "NonError"

\* --------------------------------------------------------- configuration
DefaultBaseUrl == "https://api.extrusionsim.com"

DefaultTimeout == 30000

\* The configs a caller may pass to the constructor.
Configs ==
  [customerName : {JSUndefined, JSStr(""), JSStr("acme")},
   apiSecret : {JSUndefined, JSStr(""), JSStr("s3cret")},
   baseUrl : {JSUndefined, JSStr("http://localhost:3000")},
   timeout : {JSUndefined, JSNum("5000")}]

NoConfig ==
  [customerName |-> JSUndefined, apiSecret |-> JSUndefined,
   baseUrl |-> JSUndefined, timeout |-> JSUndefined]

\* A constructor that does not check apiSecret.
ConstructorNoSecretCheck(config) ==
  IF ~Truthy(config.customerName)
  THEN [state |-> "threw", config |-> NoConfig,
        error |-> MkError("Error", "Error", "customerName is required")]
  ELSE [state |-> "constructed",
        config |-> [customerName |-> config.customerName,
                    apiSecret |-> config.apiSecret,
                    baseUrl |-> JSNullish(config.baseUrl, JSStr(DefaultBaseUrl)),
                    timeout |-> JSNullish(config.timeout,
                                          JSNum(ToString(DefaultTimeout)))],
        error |-> NoError]

\* The constructor: its outcome is a thrown Error or the resolved config.
Constructor(config) ==
  IF ~Truthy(config.customerName)
  THEN [state |-> "threw", config |-> NoConfig,
        error |-> MkError("Error", "Error", "customerName is required")]
  ELSE IF ~Truthy(config.apiSecret)
  THEN [state |-> "threw", config |-> NoConfig,
        error |-> MkError("Error", "Error", "apiSecret is required")]
  ELSE [state |-> "constructed",
        config |-> [customerName |-> config.customerName,
                    apiSecret |-> config.apiSecret,
                    baseUrl |-> JSNullish(config.baseUrl, JSStr(DefaultBaseUrl)),
                    timeout |-> JSNullish(config.timeout,
                                          JSNum(ToString(DefaultTimeout)))],
        error |-> NoError]

NoClient == [state |-> "new", config |-> NoConfig, error |-> NoError]

\* ------------------------------------------------------ public operations
Ops == {"getApiStatus", "calculateSimulation", "calculateQuenching",
        "getAgingTable"}

\* The operations that take an inputData argument.
InputOps == {"calculateSimulation", "calculateQuenching"}

\* calculateQuenching copied from calculateSimulation with its endpoint.
EndpointCopied(op) ==
  CASE op = "getApiStatus" -> "/status"
    [] op = "calculateSimulation" -> "/simulate"
    [] op = "calculateQuenching" -> "/simulate"
    [] op = "getAgingTable" -> "/aging-table"

Endpoint(op) ==
  CASE op = "getApiStatus" -> "/status"
    [] op = "calculateSimulation" -> "/simulate"
    [] op = "calculateQuenching" -> "/quenching"
    [] op = "getAgingTable" -> "/aging-table"

Method(op) == IF op \in InputOps THEN "POST" ELSE "GET"

\* The inputData values a caller may pass: absent, a plain record, a record
\* with a circular reference, a record whose toJSON throws a non-Error.
InputValues ==
  {JSNull, JSUndefined, JSObj("input"), JSObj("circular"), JSObj("toJSONthrows")}

\* The argument of an operation: the GET operations take none.
InputsOf(op) == IF op \in InputOps THEN InputValues ELSE {JSUndefined}

\* A serializer that never throws: what it cannot serialize becomes "{}".
JSONstringifyLenient(x) ==
  [ok |-> TRUE,
   text |-> IF x \in {JSObj("circular"), JSObj("toJSONthrows")}
            THEN JSStr("{}") ELSE JSStr("{\"json\":\"" \o x.v \o "\"}"),
   error |-> NoError]

\* JSON.stringify(inputData): the text, or the value it throws.
JSONstringify(x) ==
  CASE x = JSObj("circular") ->
         [ok |-> FALSE, text |-> JSUndefined,
          error |-> MkError("TypeError", "TypeError",
                            "Converting circular structure to JSON")]
    [] x = JSObj("toJSONthrows") ->
         [ok |-> FALSE, text |-> JSUndefined,
          error |-> MkError("NonError", "", "")]
    [] OTHER ->
         [ok |-> TRUE, text |-> JSStr("{\"json\":\"" \o x.v \o "\"}"),
          error |-> NoError]

\* ------------------------------------------------------------- envelopes
SuccessEnvelope(data) == [data |-> data, success |-> TRUE, error |-> JSNull]

FailureEnvelope(message) ==
  [data |-> JSNull, success |-> FALSE, error |-> JSStr(message)]

NoEnvelope == [data |-> JSUndefined, success |-> FALSE, error |-> JSUndefined]

\* How makeRequest settles: it resolves with the payload or rejects.
Resolved(value) == [kind |-> "return", value |-> value, error |-> NoError]

Rejected(error) == [kind |-> "throw", value |-> JSUndefined, error |-> error]

Unsettled == [kind |-> "pending", value |-> JSUndefined, error |-> NoError]

\* How a public operation ends: it returns an envelope or throws.
Return(envelope) ==
  [kind |-> "return", envelope |-> envelope, error |-> NoError]

Throw(error) == [kind |-> "throw", envelope |-> NoEnvelope, error |-> error]

Pending == [kind |-> "pending", envelope |-> NoEnvelope, error |-> NoError]

\* A catch block that handles only the errors makeRequest raises.
PublicCatchRethrow(error) ==
  IF error.cls = "EisApiError"
  THEN Return(FailureEnvelope(error.message))
  ELSE Throw(error)

\* A catch block that appends the status code to the message.
PublicCatchWithStatus(error) ==
  Return(FailureEnvelope(
    IF ~InstanceOfError(error) THEN "Unknown error"
    ELSE IF error.statusCode = JSUndefined THEN error.message
    ELSE error.message \o " (" \o JSToString(error.statusCode) \o ")"))

\* The catch block of a public operation.
PublicCatch(error) ==
  Return(FailureEnvelope(IF InstanceOfError(error) THEN error.message
                         ELSE "Unknown error"))

\* The tail of a public operation once makeRequest has settled with m.
PublicSettle(m) ==
  IF m.kind = "return" THEN Return(SuccessEnvelope(m.value))
  ELSE PublicCatch(m.error)

\* ----------------------------------------------------------- the request
NoRequest ==
  [url |-> "", method |-> "",
   headers |-> [contentType |-> "", customerName |-> "", apiSecret |-> ""],
   body |-> JSUndefined]

\* A request that sends the secret as getConfig() shows it.
BuildRequestRedacted(config, endpoint, method, body) ==
  [url |-> JSToString(config.baseUrl) \o "/v1" \o endpoint,
   method |-> JSToString(JSOr(method, JSStr("GET"))),
   headers |-> [contentType |-> "application/json",
                customerName |-> JSToString(config.customerName),
                apiSecret |-> "[REDACTED]"],
   body |-> IF Truthy(body) THEN body ELSE JSUndefined]

\* url, headers and requestOptions of makeRequest.
BuildRequest(config, endpoint, method, body) ==
  [url |-> JSToString(config.baseUrl) \o "/v1" \o endpoint,
   method |-> JSToString(JSOr(method, JSStr("GET"))),
   headers |-> [contentType |-> "application/json",
                customerName |-> JSToString(config.customerName),
                apiSecret |-> JSToString(config.apiSecret)],
   body |-> IF Truthy(body) THEN body ELSE JSUndefined]

\* ----------------------------------------------------------- the remote
Statuses == {200, 299, 300, 500}

ReasonPhrase(status) ==
  CASE status = 200 -> "OK"
    [] status = 300 -> "Multiple Choices"
    [] OTHER -> ""

\* content-type header values; JSNull: the header is not sent.
ContentTypes ==
  {JSNull, JSStr("text/html"), JSStr("application/json; charset=utf-8"),
   JSStr("application/json")}

Responses ==
  {[status |-> s, statusText |-> ReasonPhrase(s), contentType |-> ct] :
     s \in Statuses, ct \in ContentTypes}

NoResponse == [status |-> 0, statusText |-> "", contentType |-> JSNull]

\* response.ok
Ok(resp) == resp.status >= 200 /\ resp.status <= 299

\* What the transport rejects fetch with when no response is produced: the
\* TypeError messages of Node, Chrome and Safari, and the non-Error value a
\* replaced (polyfilled or instrumented) global fetch may reject with.
TransportErrors ==
  {MkError("TypeError", "TypeError", "fetch failed"),
   MkError("TypeError", "TypeError", "Failed to fetch"),
   MkError("TypeError", "TypeError", "Load failed"),
   MkError("NonError", "", "")}

\* What fetch rejects with after controller.abort().
AbortError ==
  MkError("DOMException", "AbortError", "This operation was aborted")

\* A decoded JSON body: null, a primitive or array (every property read gives
\* undefined), or an object with the fields the client reads.  kind
\* "undefined" is the errorData that was never assigned.
MkBody(kind, success, data, error, extra) ==
  [kind |-> kind, success |-> success, data |-> data, error |-> error,
   code |-> extra.code, timestamp |-> extra.timestamp, path |-> extra.path]

NoExtra ==
  [code |-> JSUndefined, timestamp |-> JSUndefined, path |-> JSUndefined]

Extras ==
  {NoExtra,
   [code |-> JSStr("E_RATE"), timestamp |-> JSStr("2025-01-01T00:00:00Z"),
    path |-> JSStr("/v1/simulate")],
   [code |-> JSStr(""), timestamp |-> JSNull, path |-> JSStr("/v1/simulate")]}

NoBody == MkBody("undefined", JSUndefined, JSUndefined, JSUndefined, NoExtra)

SuccessValues == {JSUndefined, JSBool("true"), JSBool("false"), JSNum("1")}

DataValues ==
  {JSUndefined, JSNull, JSNum("0"), JSStr(""), JSBool("false"),
   JSObj("payload")}

ErrorValues ==
  {JSUndefined, JSNull, JSStr(""), JSStr("Validation error: bad input"),
   JSStr("Rate limit exceeded"), JSStr("fetch quota exceeded"), JSNum("42")}

Bodies ==
  {MkBody("null", JSUndefined, JSUndefined, JSUndefined, NoExtra),
   MkBody("primitive", JSUndefined, JSUndefined, JSUndefined, NoExtra)}
  \cup {MkBody("object", s, d, e, x) :
          s \in SuccessValues, d \in DataValues, e \in ErrorValues,
          x \in Extras}

\* How response.json() settles: the decoded body, a SyntaxError for malformed
\* JSON, or a TypeError when the body stream breaks.
JsonOutcomes ==
  {[ok |-> TRUE, value |-> b, error |-> NoError] : b \in Bodies}
  \cup {[ok |-> FALSE, value |-> NoBody,
         error |-> MkError("SyntaxError", "SyntaxError",
                           "Unexpected token < in JSON at position 0")],
        [ok |-> FALSE, value |-> NoBody,
         error |-> MkError("TypeError", "TypeError", "terminated")]}

NoOutcome == [ok |-> FALSE, value |-> NoBody, error |-> NoError]

\* ------------------------------------------------------------ makeRequest
\* A catch block that looks for a TimeoutError instead of an AbortError.
CatchHandlerTimeoutName(config, error) ==
  IF InstanceOfError(error) /\ error.name = "TimeoutError"
  THEN EisApiError(JSStr("Request timeout after "
                         \o JSToString(config.timeout) \o "ms"), NoOptions)
  ELSE IF error.cls = "TypeError" /\ Includes(error.message, "fetch")
  THEN EisApiError(JSStr("Network error: Unable to connect to API"), NoOptions)
  ELSE IF error.cls = "EisApiError"
  THEN error
  ELSE EisApiError(JSStr(IF InstanceOfError(error) THEN error.message
                         ELSE "Unknown error occurred"), NoOptions)

\* A catch block that takes every message mentioning fetch for a network
\* error, without the instanceof TypeError test.
CatchHandlerAnyFetch(config, error) ==
  IF InstanceOfError(error) /\ error.name = "AbortError"
  THEN EisApiError(JSStr("Request timeout after "
                         \o JSToString(config.timeout) \o "ms"), NoOptions)
  ELSE IF InstanceOfError(error) /\ Includes(error.message, "fetch")
  THEN EisApiError(JSStr("Network error: Unable to connect to API"), NoOptions)
  ELSE IF error.cls = "EisApiError"
  THEN error
  ELSE EisApiError(JSStr(IF InstanceOfError(error) THEN error.message
                         ELSE "Unknown error occurred"), NoOptions)

\* A catch block that rethrows what it does not recognise.
CatchHandlerRethrow(config, error) ==
  IF InstanceOfError(error) /\ error.name = "AbortError"
  THEN EisApiError(JSStr("Request timeout after "
                         \o JSToString(config.timeout) \o "ms"), NoOptions)
  ELSE IF error.cls = "TypeError" /\ Includes(error.message, "fetch")
  THEN EisApiError(JSStr("Network error: Unable to connect to API"), NoOptions)
  ELSE error

\* The catch block of makeRequest: the error it rethrows.
CatchHandler(config, error) ==
  IF InstanceOfError(error) /\ error.name = "AbortError"
  THEN EisApiError(JSStr("Request timeout after "
                         \o JSToString(config.timeout) \o "ms"), NoOptions)
  ELSE IF error.cls = "TypeError" /\ Includes(error.message, "fetch")
  THEN EisApiError(JSStr("Network error: Unable to connect to API"), NoOptions)
  ELSE IF error.cls = "EisApiError"
  THEN error
  ELSE EisApiError(JSStr(IF InstanceOfError(error) THEN error.message
                         ELSE "Unknown error occurred"), NoOptions)

\* A content-type test that accepts every declared type.
IsAnyContentType(ct) == ct.t = "string"

\* contentType?.includes('application/json')
IsJsonContentType(ct) == ct.t = "string" /\ Includes(ct.v, "application/json")

\* A spread that copies the field whenever the body has it.
SpreadAlways(x) == x

\* ...(x && { field: x }): the field is set when x is truthy.
SpreadIf(x) == IF Truthy(x) THEN x ELSE JSUndefined

\* The error thrown for a response that is not ok.  j is how response.json()
\* settled, or NoOutcome when the body was not read.  A body that does not
\* parse, or a null body (reading errorData.error throws), leaves the default
\* message; errorData keeps the value assigned before the throw.
HttpError(resp, j) ==
  LET default == JSStr("HTTP " \o ToString(resp.status) \o ": "
                       \o resp.statusText)
      errorData == j.value
      errorMessage == IF j.ok /\ errorData.kind # "null"
                      THEN JSOr(errorData.error, default)
                      ELSE default
  IN EisApiError(errorMessage,
                 [code |-> SpreadIf(errorData.code),
                  timestamp |-> SpreadIf(errorData.timestamp),
                  path |-> SpreadIf(errorData.path),
                  statusCode |-> JSNum(ToString(resp.status))])

\* A payload check by truthiness: !result.data.
IsFalsyData(data) == ~Truthy(data)

\* A payload check against undefined only.
IsUndefinedData(data) == data = JSUndefined

\* The payload check: result.data === null.
IsNullData(data) == data = JSNull

\* A message read from the wrong field: result.message || 'Unknown API error'.
ApiErrorMessageWrongField(result) == JSStr("Unknown API error")

\* result.error || 'Unknown API error'
ApiErrorMessage(result) == JSOr(result.error, JSStr("Unknown API error"))

\* A flag test against false only: result.success === false.
SuccessFlagIsFalse(result) == result.success = JSBool("false")

\* !result.success
SuccessFlagFalsy(result) == ~Truthy(result.success)

\* The try block after an ok response, from response.json() on: how it ends
\* before the catch block sees it.
ClassifyBody(resp, j) ==
  IF ~j.ok THEN Rejected(j.error)
  ELSE LET result == j.value IN
    IF result.kind = "null"
    THEN Rejected(MkError("TypeError", "TypeError",
                   "Cannot read properties of null (reading 'success')"))
    ELSE IF SuccessFlagFalsy(result)
    THEN LET errorMessage == ApiErrorMessage(result) IN
      IF errorMessage.t # "string"
      THEN Rejected(MkError("TypeError", "TypeError",
                     "errorMessage.startsWith is not a function"))
      ELSE IF StartsWith(errorMessage.v, "Validation error")
      THEN Rejected(EisApiError(errorMessage,
                      [code |-> JSStr("VALIDATION_ERROR"),
                       timestamp |-> JSUndefined, path |-> JSUndefined,
                       statusCode |-> JSNum(ToString(resp.status))]))
      ELSE Rejected(EisApiError(errorMessage,
                      [code |-> JSUndefined,
                       timestamp |-> JSUndefined, path |-> JSUndefined,
                       statusCode |-> JSNum(ToString(resp.status))]))
    ELSE IF IsNullData(result.data)
    THEN Rejected(EisApiError(JSStr("API returned null data"), NoOptions))
    ELSE Resolved(result.data)

\* try/catch of makeRequest around a settled try block.
TryCatch(config, m) ==
  IF m.kind = "throw" THEN Rejected(CatchHandler(config, m.error)) ELSE m

\* ------------------------------------------------------------------ state
\* client: the one client instance (NoClient before construction);
\* given:  the config handed to the constructor;
\* call:   per call slot, the position of the public operation (pc), its
\*         arguments, the request it issued, its timer and abort signal, what
\*         the remote answered, the error thrown inside the try block of
\*         makeRequest (raised), how makeRequest settled and how the public
\*         operation ended;
\* view:   the object the last getConfig() returned, as the caller holds it.
VARIABLES client, given, call, view

vars == <<client, given, call, view>>

IdleCall ==
  [pc |-> "idle", op |-> "", input |-> JSUndefined,
   request |-> NoRequest, nfetch |-> 0,
   timer |-> "none", timerMs |-> JSUndefined, narmed |-> 0,
   aborted |-> FALSE, nabort |-> 0,
   rejection |-> NoError, resp |-> NoResponse, nread |-> 0,
   json |-> NoOutcome, raised |-> NoError, settled |-> Unsettled,
   completion |-> Pending,
   afterWrite |-> FALSE]

\* A getConfig that hands out the secret.
GetConfigLeaky(config) ==
  [customerName |-> config.customerName, baseUrl |-> config.baseUrl,
   timeout |-> config.timeout, apiSecret |-> config.apiSecret]

\* getConfig(): a new object with the secret replaced.
GetConfig(config) ==
  [customerName |-> config.customerName, baseUrl |-> config.baseUrl,
   timeout |-> config.timeout, apiSecret |-> JSStr("[REDACTED]")]

NoView == [state |-> "none", obj |-> NoConfig]

\* What a caller may assign to a field of the object getConfig() returned.
ViewWrites == {[field |-> "timeout", value |-> JSNum("1")]}

\* A getConfig that returns this.config itself: a write to the returned
\* object is a write to the client's config.
ConfigAfterViewWriteAliased(config, w) == [config EXCEPT ![w.field] = w.value]

\* this.config after the caller wrote w to the object getConfig() returned:
\* the object is a fresh literal, so the config is not reached.
ConfigAfterViewWrite(config, w) == config

\* An input check against null only: inputData === null.
InputIsNull(inputData) == inputData = JSNull

\* The input check of calculateSimulation and calculateQuenching: !inputData.
InputMissing(inputData) == ~Truthy(inputData)

\* A clearTimeout that is never called.
ClearTimeoutMissing(timer) == timer

\* clearTimeout(timeoutId): disarms a timer that has not fired.
ClearTimeout(timer) == IF timer = "armed" THEN "cleared" ELSE timer

\* A public operation called with inputData, run up to its first await: the
\* input check, JSON.stringify, and makeRequest up to `await fetch`.
Start(config, op, inputData) ==
  LET s == JSONstringify(inputData)
      base == [IdleCall EXCEPT !.op = op, !.input = inputData]
  IN IF op \in InputOps /\ InputMissing(inputData)
     THEN [base EXCEPT !.pc = "done",
             !.completion = Return(FailureEnvelope("inputData is required"))]
     ELSE IF op \in InputOps /\ ~s.ok
     THEN [base EXCEPT !.pc = "done", !.completion = PublicCatch(s.error)]
     ELSE [base EXCEPT !.pc = "fetch",
             !.request = BuildRequest(config, Endpoint(op), JSStr(Method(op)),
                           IF op \in InputOps THEN s.text ELSE JSUndefined),
             !.timer = "armed", !.timerMs = config.timeout, !.narmed = 1,
             !.nfetch = 1]

\* A makeRequest that issues the request a second time after a failure.
FinishWithRetry(k, m) ==
  IF m.kind = "throw" /\ k.nfetch < 2
  THEN [k EXCEPT !.pc = "fetch", !.nfetch = @ + 1, !.timer = "armed",
                 !.narmed = @ + 1, !.aborted = FALSE,
                 !.rejection = NoError, !.resp = NoResponse,
                 !.json = NoOutcome, !.raised = NoError]
  ELSE [k EXCEPT !.pc = "done",
                 !.timer = IF m.kind = "throw" THEN ClearTimeout(@) ELSE @,
                 !.settled = m, !.completion = PublicSettle(m)]

\* makeRequest has settled with m (a rejection went through its catch block,
\* which clears the timer again): the public operation ends.
Finish(k, m) ==
  [k EXCEPT !.pc = "done",
            !.timer = IF m.kind = "throw" THEN ClearTimeout(@) ELSE @,
            !.settled = m, !.completion = PublicSettle(m)]

\* A response handler without the clearTimeout after `await fetch`.
OnResponseKeepTimer(config, k, resp) ==
  LET k1 == [k EXCEPT !.resp = resp]
  IN IF ~Ok(resp)
     THEN IF IsJsonContentType(resp.contentType)
          THEN [k1 EXCEPT !.pc = "errorJson", !.nread = @ + 1]
          ELSE Finish([k1 EXCEPT !.raised = HttpError(resp, NoOutcome)],
                      TryCatch(config, Rejected(HttpError(resp, NoOutcome))))
     ELSE [k1 EXCEPT !.pc = "json", !.nread = @ + 1]

\* response.json() on a request whose signal is aborted rejects with the
\* AbortError; otherwise it settles as the remote's body decides.
ReadOutcome(k, j) ==
  IF k.aborted THEN [ok |-> FALSE, value |-> NoBody, error |-> AbortError]
  ELSE j

\* `await fetch` resolved with resp: clearTimeout, then the ok test; a
\* response that is not ok has its body read only for a JSON content type.
OnResponse(config, k, resp) ==
  LET k1 == [k EXCEPT !.timer = ClearTimeout(@), !.resp = resp]
  IN IF ~Ok(resp)
     THEN IF IsJsonContentType(resp.contentType)
          THEN [k1 EXCEPT !.pc = "errorJson", !.nread = @ + 1]
          ELSE Finish([k1 EXCEPT !.raised = HttpError(resp, NoOutcome)],
                      TryCatch(config, Rejected(HttpError(resp, NoOutcome))))
     ELSE [k1 EXCEPT !.pc = "json", !.nread = @ + 1]

\* ---------------------------------------------------------------- actions
Init ==
  /\ client = NoClient
  /\ given = NoConfig
  /\ call = [c \in Calls |-> IdleCall]
  /\ view = NoView

\* new EisClient(config)
Construct(config) ==
  /\ client.state = "new"
  /\ client' = Constructor(config)
  /\ given' = config
  /\ UNCHANGED <<call, view>>

\* A caller invokes a public operation on the constructed client.
Invoke(c, op, inputData) ==
  /\ client.state = "constructed"
  /\ call[c].pc = "idle"
  /\ call' = [call EXCEPT ![c] =
                [Start(client.config, op, inputData)
                   EXCEPT !.afterWrite = (view.state = "written")]]
  /\ UNCHANGED <<client, given, view>>

\* A timer callback that aborts a controller shared by all calls.
TimerFireShared(c) ==
  /\ call[c].timer = "armed"
  /\ call' = [d \in Calls |->
                IF d = c
                THEN [call[d] EXCEPT !.timer = "fired", !.aborted = TRUE,
                                     !.nabort = @ + 1]
                ELSE IF call[d].pc = "fetch"
                THEN [call[d] EXCEPT !.aborted = TRUE]
                ELSE call[d]]
  /\ UNCHANGED <<client, given, view>>

\* A timer set with setInterval: it stays armed after it fired.
TimerFireRepeating(c) ==
  /\ call[c].timer = "armed"
  /\ call[c].nabort < 2
  /\ call' = [call EXCEPT ![c].aborted = TRUE, ![c].nabort = @ + 1]
  /\ UNCHANGED <<client, given, view>>

\* The timer callback: controller.abort().
TimerFire(c) ==
  /\ call[c].timer = "armed"
  /\ call' = [call EXCEPT ![c].timer = "fired", ![c].aborted = TRUE,
                          ![c].nabort = @ + 1]
  /\ UNCHANGED <<client, given, view>>

\* The transport fails without a response: fetch rejects with error.
FetchReject(c, error) ==
  /\ call[c].pc = "fetch"
  /\ ~call[c].aborted
  /\ call' = [call EXCEPT ![c] =
                Finish([@ EXCEPT !.rejection = error, !.raised = error],
                       TryCatch(client.config, Rejected(error)))]
  /\ UNCHANGED <<client, given, view>>

\* The aborted request: fetch rejects with an AbortError.
FetchAbort(c) ==
  /\ call[c].pc = "fetch"
  /\ call[c].aborted
  /\ call' = [call EXCEPT ![c] =
                Finish([@ EXCEPT !.rejection = AbortError,
                                 !.raised = AbortError],
                       TryCatch(client.config, Rejected(AbortError)))]
  /\ UNCHANGED <<client, given, view>>

\* The response (status line and headers) arrives: fetch resolves.
FetchResolve(c, resp) ==
  /\ call[c].pc = "fetch"
  /\ ~call[c].aborted
  /\ call' = [call EXCEPT ![c] = OnResponse(client.config, @, resp)]
  /\ UNCHANGED <<client, given, view>>

\* response.json() of a response that is not ok settles with j.
ErrorBodyRead(c, j) ==
  /\ call[c].pc = "errorJson"
  /\ LET r == ReadOutcome(call[c], j) IN
       call' = [call EXCEPT ![c] =
                  Finish([@ EXCEPT !.json = r,
                                   !.raised = HttpError(call[c].resp, r)],
                         TryCatch(client.config,
                                  Rejected(HttpError(call[c].resp, r))))]
  /\ UNCHANGED <<client, given, view>>

\* response.json() of an ok response settles with j.
BodyRead(c, j) ==
  /\ call[c].pc = "json"
  /\ LET r == ReadOutcome(call[c], j) IN
       call' = [call EXCEPT ![c] =
                  Finish([@ EXCEPT !.json = r,
                                   !.raised = ClassifyBody(call[c].resp, r).error],
                         TryCatch(client.config,
                                  ClassifyBody(call[c].resp, r)))]
  /\ UNCHANGED <<client, given, view>>

\* The caller reads the configuration: getConfig().
GetConfigCall ==
  /\ client.state = "constructed"
  /\ view' = [state |-> "returned", obj |-> GetConfig(client.config)]
  /\ UNCHANGED <<client, given, call>>

\* The caller assigns to a field of the object getConfig() returned.
WriteView(w) ==
  /\ view.state # "none"
  /\ view' = [state |-> "written", obj |-> [view.obj EXCEPT ![w.field] = w.value]]
  /\ client' = [client EXCEPT !.config = ConfigAfterViewWrite(@, w)]
  /\ UNCHANGED <<given, call>>

\* One call at a time, against every answer of the remote.
Next ==
  \/ \E config \in Configs : Construct(config)
  \/ \E op \in Ops : \E inputData \in InputsOf(op) : Invoke(1, op, inputData)
  \/ TimerFire(1)
  \/ \E error \in TransportErrors : FetchReject(1, error)
  \/ FetchAbort(1)
  \/ \E resp \in Responses : FetchResolve(1, resp)
  \/ \E j \in JsonOutcomes : ErrorBodyRead(1, j)
  \/ \E j \in JsonOutcomes : BodyRead(1, j)

Spec == Init /\ [][Next]_vars

\* The runtime's guarantees: an armed timer fires unless it is cleared first,
\* and a fetch whose signal is aborted rejects.  Nothing obliges the remote
\* to answer or to complete a body it has begun.
SpecFair ==
  /\ Init /\ [][Next]_vars
  /\ WF_vars(TimerFire(1))
  /\ WF_vars(FetchAbort(1))

\* ---------------------------------------------------- concurrent calls
\* The answers of the remote used when several calls are in flight: an ok and
\* a failing status, a payload, an API-level failure and malformed JSON.
ConcurrentResponses ==
  {r \in Responses :
     r.status \in {200, 500} /\ r.contentType = JSStr("application/json")}

ConcurrentOutcomes ==
  {j \in JsonOutcomes :
     \/ j.error.cls = "SyntaxError"
     \/ j.value = MkBody("object", JSBool("true"), JSObj("payload"), JSNull,
                         NoExtra)
     \/ j.value = MkBody("object", JSBool("false"), JSNull,
                         JSStr("Rate limit exceeded"), NoExtra)}

ConcurrentConfigs ==
  {config \in Configs :
     /\ (config.baseUrl = JSUndefined) = (config.timeout = JSUndefined)
     /\ config.customerName # JSUndefined /\ config.apiSecret # JSUndefined}

\* Up to MaxCalls calls in flight at once on the one client, their responses
\* and timers interleaved in every order, and with getConfig() calls and
\* writes to the objects they return.  The calls are getApiStatus() and
\* calculateSimulation(undefined), which ends at its input check.
NextConcurrent ==
  \/ \E config \in ConcurrentConfigs : Construct(config)
  \/ \E c \in Calls : \E op \in {"getApiStatus", "calculateSimulation"} :
       \E inputData \in InputsOf(op) \cap {JSUndefined} :
         Invoke(c, op, inputData)
  \/ \E c \in Calls : TimerFire(c)
  \/ \E c \in Calls : FetchReject(c, MkError("TypeError", "TypeError",
                                               "fetch failed"))
  \/ \E c \in Calls : FetchAbort(c)
  \/ \E c \in Calls : \E resp \in ConcurrentResponses : FetchResolve(c, resp)
  \/ \E c \in Calls : \E j \in ConcurrentOutcomes : ErrorBodyRead(c, j)
  \/ \E c \in Calls : \E j \in ConcurrentOutcomes : BodyRead(c, j)
  \/ GetConfigCall
  \/ \E w \in ViewWrites : WriteView(w)

SpecConcurrent == Init /\ [][NextConcurrent]_vars

\* ================================================================ claims
\* The call in slot c has completed.
Done(c) == call[c].pc = "done"

\* The envelope the call in slot c returned.
EnvelopeOf(c) == call[c].completion.envelope

\* The call in slot c returned exactly the failure envelope with message msg.
ReturnedFailure(c, msg) == call[c].completion = Return(FailureEnvelope(msg))

\* The call in slot c received an ok response whose body decoded to an object.
DecodedOk(c) ==
  /\ Done(c) /\ call[c].resp # NoResponse /\ Ok(call[c].resp)
  /\ call[c].json.ok /\ call[c].json.value.kind = "object"

\* A non-empty string.
NonEmptyString(x) == x.t = "string" /\ x.v # ""

\* The timeout a config resolves to, read off the config the caller supplied.
SuppliedTimeout ==
  IF given.timeout = JSUndefined THEN "30000" ELSE given.timeout.v

\* ---- C1
\* C1: whatever the request outcome (transport failure, timer firing, any
\* status, any body, malformed JSON, input that does not serialize), a public
\* operation never throws to its caller, and a completed call has returned an
\* envelope.
C1_NeverThrows ==
  \A c \in Calls :
    /\ call[c].completion.kind # "throw"
    /\ Done(c) => /\ call[c].completion.kind = "return"
                  /\ EnvelopeOf(c) # NoEnvelope

\* A call whose input did not serialize has completed with an envelope.
C1_Witness ==
  \E c \in Calls :
    /\ Done(c) /\ call[c].input = JSObj("circular")
    /\ call[c].completion.kind = "return"
    /\ call[c].nfetch = 0

\* ---- C2
\* C2: every returned envelope is (success, error null, data neither null nor
\* missing) or (not success, data null, error a string).
C2_TwoVariants ==
  \A c \in Calls :
    Done(c) =>
      LET e == EnvelopeOf(c) IN
        \/ e.success /\ e.error = JSNull
                     /\ e.data.t \notin {"null", "undefined"}
        \/ ~e.success /\ e.data = JSNull /\ e.error.t = "string"

\* ---- C3
\* C3: an ok response whose body is {success:true, data:X, error:null} with a
\* payload X makes the operation return exactly {data:X, success:true,
\* error:null}.
C3_RoundTrip ==
  \A c \in Calls :
    (/\ DecodedOk(c)
     /\ call[c].json.value.success = JSBool("true")
     /\ call[c].json.value.error = JSNull
     /\ call[c].json.value.data.t \notin {"null", "undefined"})
    => call[c].completion = Return(SuccessEnvelope(call[c].json.value.data))

\* A falsy payload (the number 0) came back as the data of a success envelope.
C3_Witness ==
  \E c \in Calls :
    /\ DecodedOk(c)
    /\ call[c].json.value.success = JSBool("true")
    /\ call[c].json.value.error = JSNull
    /\ call[c].json.value.data = JSNum("0")
    /\ EnvelopeOf(c) = SuccessEnvelope(JSNum("0"))

\* ---- C4
\* C4: when the timer fires before a response, the request is cancelled and
\* the operation returns the failure envelope "Request timeout after
\* {timeout}ms" with the supplied timeout, or 30000 when none was supplied.
C4_Timeout ==
  \A c \in Calls :
    /\ call[c].timer = "fired" => call[c].aborted /\ call[c].resp = NoResponse
    /\ (Done(c) /\ call[c].timer = "fired")
       => ReturnedFailure(c, "Request timeout after " \o SuppliedTimeout \o "ms")

\* A call of a client built without a timeout has timed out.
C4_Witness ==
  \E c \in Calls :
    /\ Done(c) /\ call[c].timer = "fired" /\ given.timeout = JSUndefined
    /\ ReturnedFailure(c, "Request timeout after 30000ms")

\* ---- C5
\* C5: every transport failure (fetch rejects without a response, the timer
\* has not fired), whatever error is reported, yields the failure envelope
\* "Network error: Unable to connect to API".
C5_TransportFailure ==
  \A c \in Calls :
    (Done(c) /\ call[c].rejection \in TransportErrors)
    => ReturnedFailure(c, "Network error: Unable to connect to API")

\* ---- C6
\* C6: an ok response whose body has success true and data null yields the
\* failure envelope "API returned null data", never a success envelope.
C6_NullPayload ==
  \A c \in Calls :
    (/\ DecodedOk(c)
     /\ call[c].json.value.success = JSBool("true")
     /\ call[c].json.value.data = JSNull)
    => ReturnedFailure(c, "API returned null data")

\* The body {success:true, data:null, error:null} was answered to a call.
C6_Witness ==
  \E c \in Calls :
    /\ DecodedOk(c)
    /\ call[c].json.value.success = JSBool("true")
    /\ call[c].json.value.data = JSNull
    /\ call[c].json.value.error = JSNull
    /\ ~EnvelopeOf(c).success

\* ---- C7
\* C7: calculateSimulation and calculateQuenching with a null or undefined
\* input return the failure envelope "inputData is required" at once: the
\* call never waits, issues no request and arms no timer.
C7_AbsentInput ==
  \A c \in Calls :
    (call[c].op \in InputOps /\ call[c].input \in {JSNull, JSUndefined})
    => /\ Done(c)
       /\ ReturnedFailure(c, "inputData is required")
       /\ call[c].nfetch = 0 /\ call[c].request = NoRequest
       /\ call[c].narmed = 0 /\ call[c].timer = "none"

\* calculateQuenching was called with undefined.
C7_Witness ==
  \E c \in Calls :
    /\ call[c].op = "calculateQuenching" /\ call[c].input = JSUndefined
    /\ Done(c)

\* ---- C8
\* "HTTP {status}: {statusText}" of the response of slot c.
HttpFallback(c) ==
  "HTTP " \o ToString(call[c].resp.status) \o ": " \o call[c].resp.statusText

\* The response of slot c declares a JSON content type.
DeclaresJson(c) ==
  call[c].resp.contentType \in
    {JSStr("application/json"), JSStr("application/json; charset=utf-8")}

\* The call in slot c completed on a response that is not ok.
DoneNotOk(c) == Done(c) /\ call[c].resp # NoResponse /\ ~Ok(call[c].resp)

\* C8 as stated: for a response that is not ok the error is the body's error
\* field when a JSON content type is declared, the body parses and the field
\* is present, and "HTTP {status}: {statusText}" otherwise; the body is read
\* only when a JSON content type is declared.
C8_AsStated ==
  \A c \in Calls :
    DoneNotOk(c) =>
      /\ EnvelopeOf(c).error =
           IF /\ DeclaresJson(c) /\ call[c].json.ok
              /\ call[c].json.value.kind = "object"
              /\ call[c].json.value.error # JSUndefined
           THEN call[c].json.value.error
           ELSE JSStr(HttpFallback(c))
      /\ call[c].nread > 0 => DeclaresJson(c)

\* C8 amended: the error is the body's error field (as a string) when a JSON
\* content type is declared, the body parses and the field is truthy (not
\* absent, null or empty), and "HTTP {status}: {statusText}" otherwise; the
\* body is read only when a JSON content type is declared.
C8_HttpErrorMessage ==
  \A c \in Calls :
    DoneNotOk(c) =>
      /\ ~EnvelopeOf(c).success /\ EnvelopeOf(c).data = JSNull
      /\ EnvelopeOf(c).error =
           IF /\ DeclaresJson(c) /\ call[c].json.ok
              /\ call[c].json.value.kind = "object"
              /\ Truthy(call[c].json.value.error)
           THEN JSStr(JSToString(call[c].json.value.error))
           ELSE JSStr(HttpFallback(c))
      /\ call[c].nread > 0 <=> DeclaresJson(c)

\* A 500 response with a JSON body whose error field is the empty string
\* ended with the fallback message.
C8_Witness ==
  \E c \in Calls :
    /\ DoneNotOk(c) /\ DeclaresJson(c) /\ call[c].json.ok
    /\ call[c].resp.status = 500
    /\ call[c].json.value.kind = "object"
    /\ call[c].json.value.error = JSStr("")
    /\ ReturnedFailure(c, "HTTP 500: ")

C10_Construction ==
  [][(client.state = "new" /\ client'.state # "new")
     => /\ client'.state =
             IF /\ NonEmptyString(given'.customerName)
                /\ NonEmptyString(given'.apiSecret)
             THEN "constructed" ELSE "threw"
        /\ client'.state = "threw" => InstanceOfError(client'.error)
        /\ call' = call
        /\ \A c \in Calls : call'[c].nfetch = 0 /\ call'[c].narmed = 0]_vars

\* Construction with a customerName and an empty apiSecret has thrown.
C10_Witness ==
  /\ client.state = "threw"
  /\ given.customerName = JSStr("acme") /\ given.apiSecret = JSStr("")
  /\ client.error.message = "apiSecret is required"

\* The base URL a config resolves to, read off the config the caller supplied.
SuppliedBaseUrl ==
  IF given.baseUrl = JSUndefined THEN "https://api.extrusionsim.com"
  ELSE given.baseUrl.v

\* The call in slot c has issued its request.
Issued(c) == call[c].nfetch > 0

\* ---- C11
\* C11: at any point of the client's life getConfig() returns apiSecret
\* "[REDACTED]", customerName as supplied, and baseUrl and timeout as supplied
\* or, when omitted, the defaults 'https://api.extrusionsim.com' and 30000.
C11_GetConfig ==
  view.state = "returned" =>
    view.obj = [customerName |-> given.customerName,
                apiSecret |-> JSStr("[REDACTED]"),
                baseUrl |-> JSStr(SuppliedBaseUrl),
                timeout |-> JSNum(SuppliedTimeout)]

\* getConfig() was called on a client built without baseUrl and timeout
\* while one call had completed and another was in flight.
C11_Witness ==
  /\ view.state = "returned"
  /\ given.timeout = JSUndefined /\ given.baseUrl = JSUndefined
  /\ view.obj.timeout = JSNum("30000")
  /\ view.obj.apiSecret = JSStr("[REDACTED]")
  /\ \E c, d \in Calls : Done(c) /\ call[d].pc = "fetch"

\* ---- C12
\* C12: when the API call of a public operation fails (non-2xx status,
\* API-level error, network error), the operation throws an EisApiError to
\* its caller.
C12_ThrowsOnFailure ==
  \A c \in Calls :
    (Done(c) /\ call[c].settled.kind = "throw")
    => /\ call[c].completion.kind = "throw"
       /\ call[c].completion.error.cls = "EisApiError"

\* ---- C13
\* The invocation in slot c passed the input check and serialized its body.
PassedInputCheck(c) ==
  /\ call[c].pc # "idle"
  /\ call[c].op \in InputOps
     => Truthy(call[c].input) /\ JSONstringify(call[c].input).ok

\* C13: an invocation issues at most one HTTP request whatever its outcome,
\* and exactly one when it passes the input check and serializes its body.
C13_NoRetries ==
  \A c \in Calls :
    /\ call[c].nfetch <= 1
    /\ PassedInputCheck(c) => call[c].nfetch = 1
    /\ ~PassedInputCheck(c) => call[c].nfetch = 0

\* A call answered with status 500 has completed with one request issued.
C13_Witness ==
  \E c \in Calls :
    /\ Done(c) /\ call[c].resp.status = 500 /\ call[c].nfetch = 1

\* ---- C14
\* The envelope that the outcome of the call in slot c alone determines, for
\* the answers of the concurrent specification.
OwnEnvelope(c) ==
  LET k == call[c] IN
  IF k.op \in InputOps /\ k.input \in {JSNull, JSUndefined}
  THEN FailureEnvelope("inputData is required")
  ELSE IF k.rejection = AbortError
  THEN FailureEnvelope("Request timeout after " \o SuppliedTimeout \o "ms")
  ELSE IF k.rejection # NoError
  THEN FailureEnvelope("Network error: Unable to connect to API")
  ELSE IF ~Ok(k.resp)
  THEN FailureEnvelope(IF k.json.ok /\ NonEmptyString(k.json.value.error)
                       THEN k.json.value.error.v
                       ELSE "HTTP " \o ToString(k.resp.status) \o ": "
                            \o k.resp.statusText)
  ELSE IF ~k.json.ok
  THEN FailureEnvelope(k.json.error.message)
  ELSE IF k.json.value.success = JSBool("true")
  THEN SuccessEnvelope(k.json.value.data)
  ELSE FailureEnvelope(k.json.value.error.v)

\* C14: with several calls in flight on one client, under every interleaving
\* of responses and timer firings, a step of one call leaves every other call
\* as it was, a request is cancelled only by its own call's timer, and each
\* call completes with the envelope its own outcome determines.
C14_Independent ==
  [][\A c \in Calls :
       /\ call'[c] # call[c]
          => \A d \in Calls \ {c} : call'[d] = call[d]
       /\ call'[c].aborted => call'[c].timer = "fired"
       /\ call'[c].pc = "done"
          => call'[c].completion = Return(OwnEnvelope(c))']_vars

\* Two calls in flight at once: the timer of one has fired, the other has
\* received its response.
C14_Witness ==
  \E c, d \in Calls :
    /\ call[c].pc = "fetch" /\ call[c].timer = "fired"
    /\ call[d].pc = "json" /\ ~call[d].aborted /\ call[d].timer = "cleared"

\* ---- C15
\* C15: every request issued carries Content-Type application/json, the
\* configured customerName and the real configured apiSecret.
C15_Headers ==
  \A c \in Calls :
    Issued(c) =>
      /\ call[c].request.headers =
           [contentType |-> "application/json",
            customerName |-> given.customerName.v,
            apiSecret |-> given.apiSecret.v]
      /\ call[c].request.headers.apiSecret # "[REDACTED]"

\* A request was issued with the secret "s3cret".
C15_Witness ==
  \E c \in Calls :
    Issued(c) /\ call[c].request.headers.apiSecret = "s3cret"

\* ---- C16
\* C16: each operation sends its request to {resolved baseUrl}/v1 plus its
\* endpoint with its method: GET /status, POST /simulate, POST /quenching,
\* GET /aging-table; POST carries the serialized input, GET carries no body.
C16_Endpoints ==
  \A c \in Calls :
    Issued(c) =>
      LET r == call[c].request
          expect(path, method) ==
            /\ r.url = SuppliedBaseUrl \o "/v1" \o path
            /\ r.method = method
            /\ IF method = "POST"
               THEN /\ r.body.t = "string"
                    /\ r.body = JSONstringify(call[c].input).text
               ELSE r.body = JSUndefined
      IN CASE call[c].op = "getApiStatus" -> expect("/status", "GET")
           [] call[c].op = "calculateSimulation" -> expect("/simulate", "POST")
           [] call[c].op = "calculateQuenching" -> expect("/quenching", "POST")
           [] call[c].op = "getAgingTable" -> expect("/aging-table", "GET")

\* calculateQuenching issued its request on a client built without baseUrl.
C16_Witness ==
  \E c \in Calls :
    /\ Issued(c) /\ call[c].op = "calculateQuenching"
    /\ call[c].request.url = "https://api.extrusionsim.com/v1/quenching"
    /\ call[c].request.method = "POST"

\* ---- C17
\* C17: only the message of a raised error reaches the caller: two outcomes
\* whose raised errors have the same message return identical envelopes
\* whatever their code, timestamp, path or statusCode, and an envelope has
\* no field besides data, success and error.
C17_OnlyMessage ==
  \A c, d \in Calls :
    /\ Done(c) => DOMAIN EnvelopeOf(c) = {"data", "success", "error"}
    /\ (/\ Done(c) /\ Done(d)
        /\ call[c].settled.kind = "throw" /\ call[d].settled.kind = "throw"
        /\ call[c].settled.error.message = call[d].settled.error.message)
       => EnvelopeOf(c) = EnvelopeOf(d)

\* Two calls failed with the same message and different status codes.
C17_Witness ==
  \E c, d \in Calls :
    /\ Done(c) /\ Done(d)
    /\ call[c].settled.error.message = "Rate limit exceeded"
    /\ call[d].settled.error.message = "Rate limit exceeded"
    /\ call[c].settled.error.statusCode = JSNum("500")
    /\ call[d].settled.error.statusCode = JSNum("200")
    /\ EnvelopeOf(c) = EnvelopeOf(d)

\* ---- C18
\* The config resolved at construction, read off the supplied config.
ResolvedAtConstruction ==
  [customerName |-> given.customerName, apiSecret |-> given.apiSecret,
   baseUrl |-> JSStr(SuppliedBaseUrl), timeout |-> JSNum(SuppliedTimeout)]

\* C18: no operation changes the resolved configuration: across public
\* operations, getConfig() calls and writes to the objects getConfig()
\* returned, the config stays as resolved at construction, and every request
\* takes its URL, headers and timeout from it.
C18_ConfigUnchanged ==
  [][/\ client.state = "constructed" => client' = client
     /\ client'.state = "constructed"
        => client'.config = ResolvedAtConstruction'
     /\ \A c \in Calls :
          call'[c].nfetch > 0
          => /\ call'[c].timerMs = ResolvedAtConstruction'.timeout
             /\ call'[c].request.url =
                  SuppliedBaseUrl' \o "/v1" \o Endpoint(call'[c].op)
             /\ call'[c].request.headers.customerName = given'.customerName.v
             /\ call'[c].request.headers.apiSecret = given'.apiSecret.v]_vars

\* A call was invoked after the caller had overwritten the timeout of the
\* object getConfig() returned, and armed its timer with the configured 5000.
C18_Witness ==
  \E c \in Calls :
    /\ call[c].afterWrite /\ call[c].nfetch = 1
    /\ view.state = "written" /\ view.obj.timeout = JSNum("1")
    /\ call[c].timerMs = JSNum("5000")

\* ---- C19
\* C19: an outcome is classified by the first matching rule in the order
\* transport failure, timeout, non-2xx status, API-level failure flag, null
\* payload, success: a non-2xx response yields the HTTP error whatever its
\* body's success and data; an ok body with success:false yields the
\* API-level error whatever its data, also when data is null.  (Bodies whose
\* error field is a string, null or absent.)
C19_Classification ==
  \A c \in Calls :
    (Done(c) /\ Issued(c)) =>
      LET k == call[c]
          b == k.json.value
      IN IF k.rejection \in TransportErrors
         THEN ReturnedFailure(c, "Network error: Unable to connect to API")
         ELSE IF k.rejection = AbortError
         THEN ReturnedFailure(c, "Request timeout after " \o SuppliedTimeout
                                 \o "ms")
         ELSE IF b.error.t \notin {"string", "null", "undefined"}
         THEN TRUE
         ELSE IF ~Ok(k.resp)
         THEN /\ k.settled.error.statusCode = JSNum(ToString(k.resp.status))
              /\ ReturnedFailure(c, IF k.json.ok /\ NonEmptyString(b.error)
                                    THEN b.error.v ELSE HttpFallback(c))
         ELSE IF ~k.json.ok \/ b.kind # "object"
         THEN ~EnvelopeOf(c).success
         ELSE IF b.success = JSBool("false")
         THEN ReturnedFailure(c, IF NonEmptyString(b.error) THEN b.error.v
                                 ELSE "Unknown API error")
         ELSE IF b.success = JSBool("true") /\ b.data = JSNull
         THEN ReturnedFailure(c, "API returned null data")
         ELSE IF b.success = JSBool("true")
         THEN k.completion = Return(SuccessEnvelope(b.data))
         ELSE TRUE

\* ---- C20
\* C20: the timer is disarmed on every exit path: once a response or an error
\* is obtained the timer is no longer armed, a completed call's timer is not
\* armed, and a timer fires only while its call awaits the response.
C20_TimerDisarmed ==
  [][\A c \in Calls :
       /\ call'[c].pc \in {"json", "errorJson", "done"}
          => call'[c].timer # "armed"
       /\ (call[c].timer # "fired" /\ call'[c].timer = "fired")
          => call[c].pc = "fetch"
       /\ call[c].pc = "done" => call'[c].timer = call[c].timer]_vars

\* A call that ended on malformed JSON has its timer cleared.
C20_Witness ==
  \E c \in Calls :
    /\ Done(c) /\ call[c].json.error.cls = "SyntaxError"
    /\ call[c].timer = "cleared" /\ call[c].narmed = 1

\* The error thrown inside the try block of makeRequest by the call in slot c.
RaisedOf(c) == call[c].raised

\* The error makeRequest rejected with for the call in slot c.
SettledError(c) == call[c].settled.error

\* The status of the response of slot c, as the number statusCode holds.
StatusOf(c) == JSNum(ToString(call[c].resp.status))

\* x is a string that begins with the 16 characters "Validation error".
HasValidationPrefix(x) ==
  /\ x.t = "string" /\ Len(x.v) >= 16
  /\ SubSeq(x.v, 1, 16) = "Validation error"

\* ---- C21
\* C21: an ok response whose body has success:false and a message starting
\* with "Validation error" raises an error with code "VALIDATION_ERROR",
\* whatever code the body carries, and statusCode = the response status.
C21_ValidationCode ==
  \A c \in Calls :
    (/\ DecodedOk(c)
     /\ call[c].json.value.success = JSBool("false")
     /\ HasValidationPrefix(call[c].json.value.error))
    => /\ SettledError(c).cls = "EisApiError"
       /\ SettledError(c).message = call[c].json.value.error.v
       /\ SettledError(c).code = JSStr("VALIDATION_ERROR")
       /\ SettledError(c).statusCode = StatusOf(c)

\* A 299 response with the validation message and the body code "E_RATE"
\* raised an error with code "VALIDATION_ERROR" and statusCode 299.
C21_Witness ==
  \E c \in Calls :
    /\ DecodedOk(c) /\ call[c].resp.status = 299
    /\ call[c].json.value.success = JSBool("false")
    /\ call[c].json.value.error = JSStr("Validation error: bad input")
    /\ call[c].json.value.code = JSStr("E_RATE")
    /\ SettledError(c).code = JSStr("VALIDATION_ERROR")
    /\ SettledError(c).statusCode = JSNum("299")

\* ---- C22
\* The body of the response of slot c was declared JSON and parsed to an
\* object.
ParsedErrorBody(c) ==
  /\ DeclaresJson(c) /\ call[c].json.ok /\ call[c].json.value.kind = "object"

\* C22 as stated: for a response that is not ok the raised error has
\* statusCode = the status, and its code, timestamp and path equal the body's
\* fields when the body was declared JSON, parsed and contains them, and are
\* absent otherwise.
C22_AsStated ==
  \A c \in Calls :
    DoneNotOk(c) =>
      LET e == SettledError(c)
          b == call[c].json.value
          expect(x) == IF ParsedErrorBody(c) /\ x # JSUndefined THEN x
                       ELSE JSUndefined
      IN /\ e.statusCode = StatusOf(c)
         /\ e.code = expect(b.code)
         /\ e.timestamp = expect(b.timestamp)
         /\ e.path = expect(b.path)

\* C22 amended: for a response that is not ok the raised error has
\* statusCode = the status, and its code, timestamp and path equal the body's
\* fields when the body was declared JSON, parsed and holds a truthy value for
\* them (not absent, null or empty), and are absent otherwise.
C22_HttpErrorFields ==
  \A c \in Calls :
    DoneNotOk(c) =>
      LET e == SettledError(c)
          b == call[c].json.value
          expect(x) == IF ParsedErrorBody(c) /\ Truthy(x) THEN x
                       ELSE JSUndefined
      IN /\ e.cls = "EisApiError"
         /\ e.statusCode = StatusOf(c)
         /\ e.code = expect(b.code)
         /\ e.timestamp = expect(b.timestamp)
         /\ e.path = expect(b.path)

\* A 500 response whose JSON body has an empty code, a null timestamp and a
\* path raised an error with the path and the status and without code and
\* timestamp.
C22_Witness ==
  \E c \in Calls :
    /\ DoneNotOk(c) /\ ParsedErrorBody(c) /\ call[c].resp.status = 500
    /\ call[c].json.value.code = JSStr("")
    /\ call[c].json.value.timestamp = JSNull
    /\ SettledError(c).code = JSUndefined
    /\ SettledError(c).timestamp = JSUndefined
    /\ SettledError(c).path = JSStr("/v1/simulate")
    /\ SettledError(c).statusCode = JSNum("500")

\* ---- C23
\* The ok response of slot c is classified as an API-level failure: its body
\* decoded to a value other than null whose success flag is falsy, with an
\* error field that is a string, null or absent (the declared envelope).
ApiLevelFailure(c) ==
  /\ Ok(call[c].resp) /\ call[c].json.ok
  /\ call[c].json.value.kind # "null"
  /\ ~Truthy(call[c].json.value.success)
  /\ call[c].json.value.error.t \in {"string", "null", "undefined"}

\* C23: the error makeRequest raises carries statusCode = the response status
\* exactly when a response was received and classified as not ok or as an
\* API-level failure; the errors of a transport failure, a timeout, a null
\* payload and a body that does not decode carry none.
C23_StatusCode ==
  \A c \in Calls :
    (Done(c) /\ call[c].settled.kind = "throw") =>
      SettledError(c).statusCode =
        IF /\ call[c].resp # NoResponse
           /\ ~Ok(call[c].resp) \/ ApiLevelFailure(c)
        THEN StatusOf(c)
        ELSE JSUndefined

\* A 200 response with success:true and data:null raised "API returned null
\* data" without a statusCode.
C23_Witness ==
  \E c \in Calls :
    /\ DecodedOk(c) /\ call[c].resp.status = 200
    /\ call[c].json.value.success = JSBool("true")
    /\ call[c].json.value.data = JSNull
    /\ SettledError(c).message = "API returned null data"
    /\ SettledError(c).statusCode = JSUndefined

\* ---- C24
\* The call in slot c received an ok response with success true and data
\* null.
NullPayload(c) ==
  /\ DecodedOk(c) /\ Truthy(call[c].json.value.success)
  /\ call[c].json.value.data = JSNull

\* C24: the classification steps (HTTP error, API-level error, null payload)
\* raise an EisApiError, and an EisApiError raised inside the try block leaves
\* makeRequest as it was raised, with the same message, code, timestamp, path
\* and statusCode, whatever its message says; its message is the envelope's
\* error.
C24_PassThrough ==
  \A c \in Calls :
    /\ (DoneNotOk(c) \/ (Done(c) /\ ApiLevelFailure(c)) \/ NullPayload(c))
       => RaisedOf(c).cls = "EisApiError"
    /\ (Done(c) /\ RaisedOf(c).cls = "EisApiError")
       => /\ SettledError(c) = RaisedOf(c)
          /\ ReturnedFailure(c, RaisedOf(c).message)

\* A 500 response whose body's error mentions fetch and carries a code left
\* makeRequest with that message, code and status.
C24_Witness ==
  \E c \in Calls :
    /\ DoneNotOk(c) /\ call[c].resp.status = 500
    /\ call[c].json.value.error = JSStr("fetch quota exceeded")
    /\ call[c].json.value.code = JSStr("E_RATE")
    /\ SettledError(c).message = "fetch quota exceeded"
    /\ SettledError(c).code = JSStr("E_RATE")
    /\ SettledError(c).statusCode = JSNum("500")
    /\ ReturnedFailure(c, "fetch quota exceeded")

\* ---- C25
\* The EisApiError with message msg and no further field.
PlainEisApiError(msg) ==
  [cls |-> "EisApiError", name |-> "EisApiError", message |-> msg,
   code |-> JSUndefined, timestamp |-> JSUndefined, path |-> JSUndefined,
   statusCode |-> JSUndefined]

\* C25: every error that leaves makeRequest is an EisApiError.  A failure
\* that is not a transport failure, a timeout or an EisApiError raised by the
\* classification (an ok response whose body does not parse, whose stream
\* breaks, or which decodes to null) leaves as an EisApiError with the
\* failure's own message and no other field; a thrown value that is not an
\* Error leaves with "Unknown error occurred".
C25_GenericWrap ==
  \A c \in Calls :
    (Done(c) /\ call[c].settled.kind = "throw") =>
      /\ SettledError(c).cls = "EisApiError"
      /\ SettledError(c).name = "EisApiError"
      /\ (/\ call[c].rejection = NoError
          /\ RaisedOf(c).cls # "EisApiError")
         => /\ SettledError(c) = PlainEisApiError(RaisedOf(c).message)
            /\ ReturnedFailure(c, RaisedOf(c).message)
      /\ (Ok(call[c].resp) /\ call[c].json # NoOutcome /\ ~call[c].json.ok)
         => SettledError(c) = PlainEisApiError(call[c].json.error.message)
      /\ RaisedOf(c).cls = "NonError"
         => SettledError(c) = PlainEisApiError("Unknown error occurred")

\* A 200 response whose body is the JSON text null left makeRequest as an
\* EisApiError carrying the TypeError's message.
C25_Witness ==
  \E c \in Calls :
    /\ Done(c) /\ call[c].resp.status = 200
    /\ call[c].json.ok /\ call[c].json.value.kind = "null"
    /\ RaisedOf(c).cls = "TypeError"
    /\ SettledError(c) =
         PlainEisApiError("Cannot read properties of null (reading 'success')")

\* ---- C26
\* C26: a call that issues its request arms exactly one timer, in the step
\* that issues the request and with the resolved timeout as duration, and a
\* call that issues none arms none; a request is cancelled at most once, and
\* only in a step in which its own call's armed timer fires while the call
\* awaits the response.
C26_OneTimer ==
  [][\A c \in Calls :
       /\ call'[c].narmed = call'[c].nfetch /\ call'[c].narmed <= 1
       /\ (call[c].nfetch = 0 /\ call'[c].nfetch = 1)
          => /\ call'[c].timer = "armed"
             /\ call'[c].timerMs = JSNum(SuppliedTimeout')
       /\ call'[c].nabort <= 1
       /\ call'[c].aborted <=> call'[c].nabort = 1
       /\ call'[c].nabort # call[c].nabort
          => /\ call[c].timer = "armed" /\ call'[c].timer = "fired"
             /\ call[c].pc = "fetch"
             /\ \A d \in Calls \ {c} : call'[d] = call[d]]_vars

\* Of two calls, one was cancelled once by its timer and ended as a timeout;
\* the other received its response and was never cancelled.
C26_Witness ==
  \E c, d \in Calls :
    /\ Done(c) /\ call[c].narmed = 1 /\ call[c].nabort = 1
    /\ call[c].timer = "fired" /\ call[c].rejection = AbortError
    /\ Done(d) /\ call[d].narmed = 1 /\ call[d].nabort = 0
    /\ call[d].timer = "cleared" /\ call[d].resp.status = 200

\* ---- C27
\* C27: every invocation of a public operation eventually returns an
\* envelope, whatever the remote does, given that an armed timer eventually
\* fires and that a cancelled request fails.
C27_Terminates ==
  \A c \in Calls : (call[c].pc # "idle") ~> Done(c)

\* ---- C28
\* The message of the timeout classification.
TimeoutMessage == "Request timeout after " \o SuppliedTimeout \o "ms"

\* C28: a call is classified as a timeout only if its timer fired, and a
\* timer that fired did so before any response was received: a call that
\* received its response is never reported as "Request timeout after
\* {timeout}ms", however the reading of its body ends.
C28_TimeoutOnlyBeforeResponse ==
  \A c \in Calls :
    /\ call[c].timer = "fired" => call[c].resp = NoResponse
    /\ call[c].resp # NoResponse => ~call[c].aborted
    /\ (Done(c) /\ (RaisedOf(c).name = "AbortError"
                     \/ ReturnedFailure(c, TimeoutMessage)))
       => /\ call[c].timer = "fired" /\ call[c].resp = NoResponse
          /\ call[c].rejection = AbortError

\* A call received a 200 response whose body stream then broke: it ended with
\* the stream's error, its timer cleared and never fired.
C28_Witness ==
  \E c \in Calls :
    /\ Done(c) /\ call[c].resp.status = 200
    /\ call[c].json.error.message = "terminated"
    /\ call[c].timer = "cleared" /\ ~call[c].aborted
    /\ ReturnedFailure(c, "terminated")

\* ---- C29
\* C29: calculateSimulation and calculateQuenching with an input that does
\* not serialize return a failure envelope with the serialization error's
\* message ("Unknown error" when the thrown value is not an Error), issue no
\* request and arm no timer.
C29_SerializationFailure ==
  \A c \in Calls :
    (/\ call[c].pc # "idle" /\ call[c].op \in InputOps
     /\ call[c].input \in {JSObj("circular"), JSObj("toJSONthrows")})
    => /\ Done(c)
       /\ ReturnedFailure(c, IF call[c].input = JSObj("circular")
                             THEN "Converting circular structure to JSON"
                             ELSE "Unknown error")
       /\ call[c].nfetch = 0 /\ call[c].request = NoRequest
       /\ call[c].narmed = 0 /\ call[c].timer = "none"

\* calculateQuenching with a circular input returned the TypeError's message.
C29_Witness ==
  \E c \in Calls :
    /\ call[c].op = "calculateQuenching" /\ call[c].input = JSObj("circular")
    /\ ReturnedFailure(c, "Converting circular structure to JSON")
    /\ call[c].narmed = 0

\* ---- C30
\* C30: an ok response yields a success envelope only if its body decoded to
\* an object whose success flag is true (truthy, for a flag that is not a
\* boolean); a body whose flag is false or absent always yields a failure
\* envelope, and the error raised for it has code absent or
\* "VALIDATION_ERROR" and no timestamp and path, whatever the body carries.
C30_SuccessFlag ==
  \A c \in Calls :
    (Done(c) /\ call[c].resp # NoResponse /\ Ok(call[c].resp)) =>
      LET b == call[c].json.value IN
      /\ EnvelopeOf(c).success
         => /\ DecodedOk(c) /\ Truthy(b.success)
            /\ b.success.t = "boolean" => b.success = JSBool("true")
      /\ (DecodedOk(c) /\ b.success \in {JSBool("false"), JSUndefined})
         => /\ ~EnvelopeOf(c).success /\ EnvelopeOf(c).data = JSNull
            /\ SettledError(c).cls = "EisApiError"
            /\ SettledError(c).code \in {JSUndefined, JSStr("VALIDATION_ERROR")}
            /\ SettledError(c).code = JSStr("VALIDATION_ERROR")
               => HasValidationPrefix(b.error)
            /\ SettledError(c).timestamp = JSUndefined
            /\ SettledError(c).path = JSUndefined

\* A 200 body without a success flag that carries data, an error message and
\* code, timestamp and path of its own ended as a failure whose error has
\* none of the three.
C30_Witness ==
  \E c \in Calls :
    /\ DecodedOk(c) /\ call[c].json.value.success = JSUndefined
    /\ call[c].json.value.data = JSObj("payload")
    /\ call[c].json.value.error = JSStr("Rate limit exceeded")
    /\ call[c].json.value.code = JSStr("E_RATE")
    /\ ReturnedFailure(c, "Rate limit exceeded")
    /\ SettledError(c).code = JSUndefined
    /\ SettledError(c).timestamp = JSUndefined

====
